---- MODULE Spec2Model ----
(***************************************************************************)
(* A model of the Destination Service client (go-sapcp-destination-client): *)
(* the Destination JSON codec (MarshalJSON / UnmarshalJSON) and the REST    *)
(* gateway methods of DestinationClient.                                    *)
(*                                                                          *)
(* Go strings are taken to be valid Unicode text, so that encoding/json     *)
(* carries each string to the wire and back letter for letter.  A Go map is *)
(* an object on the heap: a Destination built by the caller holds a         *)
(* reference to it (or nil), and copying the struct copies the reference.   *)
(* A JSON document is modelled by its value (object, array, string, number, *)
(* boolean, null), not by its bytes.                                        *)
(***************************************************************************)
EXTENDS Integers, Sequences, FiniteSets, TLC

VARIABLES
    heap,       \* the Go map objects made by the caller: reference -> content
    dest,       \* the caller's Destination, argument of encode/create/update
    recv,       \* the Destination a decode writes into (the receiver)
    pc,         \* where the caller stands: "new", "idle", "waiting" (request in flight)
    op,         \* the method called last (or being called)
    arg,        \* what that call was given, as it was at the call
    request,    \* the HTTP request that call issued
    response,   \* what the transport answered
    ret,        \* what the call returned
    client,     \* the DestinationClient that NewClient built (or none yet)
    transport,  \* the authenticated transport of the client: its token, its traffic
    calls       \* how many gateway methods the caller has called

vars == <<heap, dest, recv, pc, op, arg, request, response, ret, client, transport, calls>>

(***************************************************************************)
(* Bounds and the sets the inputs are drawn from.                           *)
(***************************************************************************)
\* Most entries of a properties map, or members of a payload object.
MaxProps == 2

\* Most elements of a list in a response body.
MaxList == 2

\* Most gateway methods a caller calls on one client.
MaxCalls == 2

Keys == {"Name", "Type", "name", "URL"}
Names == {"", "d1"}
PropVals == {"x", "RFC"}

\* types.go: the DestinationType enumeration (a Go string type).
HTTPDestination == "HTTP"
RFCDestination == "RFC"
MailDestination == "MAIL"
LDAPDestination == "LDAP"
DestinationTypes == {HTTPDestination, RFCDestination, MailDestination, LDAPDestination}

\* A DestinationType is any Go string: the enumeration, the empty string, a
\* name in another letter case, a name the enumeration does not have.
TypeStrs == DestinationTypes \cup {"", "http", "UNKNOWN"}

ReservedKeys == {"Name", "Type"}

(***************************************************************************)
(* Go maps.  A map[string]string value is a function from its keys; a nil   *)
(* map is the reference NilRef.                                             *)
(***************************************************************************)
EmptyMap == [k \in {} |-> ""]

MapSet(m, k, v) == [x \in (DOMAIN m) \cup {k} |-> IF x = k THEN v ELSE m[x]]

MapsOver(K, n, Val(_)) ==
    UNION {{f \in [D -> UNION {Val(k) : k \in D}] : \A k \in D : f[k] \in Val(k)} :
              D \in {D \in SUBSET K : Cardinality(D) <= n}}

NilRef == "nil"
Refs == {"m1"}

\* The Destination struct: Properties is a reference to a map object, or nil.
Destination(n, t, p) == [Name |-> n, Type |-> t, Properties |-> p]

\* The properties of a Destination as a value: absent (nil), or the content.
NilProps == [isNil |-> TRUE, kv |-> EmptyMap]
MadeProps(m) == [isNil |-> FALSE, kv |-> m]
PropsOf(d, h) == IF d.Properties = NilRef THEN NilProps ELSE MadeProps(h[d.Properties])

\* A Destination with its properties by value: what a caller can observe of it.
DestVal(n, t, p) == [Name |-> n, Type |-> t, Properties |-> p]
ValueOf(d, h) == DestVal(d.Name, d.Type, PropsOf(d, h))

\* var d Destination: the zero value.
ZeroDestination == DestVal("", "", NilProps)

(***************************************************************************)
(* JSON values.                                                             *)
(***************************************************************************)
JStr(s) == [t |-> "string", s |-> s]
JNum(n) == [t |-> "number", n |-> n]
JBool(b) == [t |-> "bool", b |-> b]
JNull == [t |-> "null"]
JArr(items) == [t |-> "array", items |-> items]
JObj(f) == [t |-> "object", fields |-> f]

\* json.Marshal of a map[string]string: an object with one string member per key.
jsonMarshalMap(m) == JObj([k \in DOMAIN m |-> JStr(m[k])])

\* json.Unmarshal into a map[string]string that holds no entries: null is
\* accepted and leaves no entries; an object member that is null stores the
\* zero string; any other non-string member, and any other top-level value,
\* is an UnmarshalTypeError.
jsonUnmarshalMap(b) ==
    IF b.t = "null" THEN [err |-> FALSE, m |-> EmptyMap]
    ELSE IF b.t # "object" THEN [err |-> TRUE, m |-> EmptyMap]
    ELSE IF \E k \in DOMAIN b.fields : b.fields[k].t \notin {"string", "null"}
         THEN [err |-> TRUE, m |-> EmptyMap]
         ELSE [err |-> FALSE,
               m |-> [k \in DOMAIN b.fields |->
                        IF b.fields[k].t = "string" THEN b.fields[k].s ELSE ""]]

(***************************************************************************)
(* The codec.                                                               *)
(***************************************************************************)
\* A MarshalJSON that writes "Name" and "Type" only where the properties have none.
MarshalJSON_keepsProps(d, h) ==
    LET m0 == IF d.Properties = NilRef THEN EmptyMap ELSE h[d.Properties]
        m1 == IF "Name" \in DOMAIN m0 THEN m0 ELSE MapSet(m0, "Name", d.Name)
        m2 == IF "Type" \in DOMAIN m1 THEN m1 ELSE MapSet(m1, "Type", d.Type)
    IN  [bytes |-> jsonMarshalMap(m2), err |-> FALSE, panic |-> FALSE,
         heap |-> IF d.Properties = NilRef THEN h ELSE [h EXCEPT ![d.Properties] = m2]]

\* A MarshalJSON that forgets the "Type" member.
MarshalJSON_noType(d, h) ==
    LET m0 == IF d.Properties = NilRef THEN EmptyMap ELSE h[d.Properties]
        m1 == MapSet(m0, "Name", d.Name)
    IN  [bytes |-> jsonMarshalMap(m1), err |-> FALSE, panic |-> FALSE,
         heap |-> IF d.Properties = NilRef THEN h ELSE [h EXCEPT ![d.Properties] = m1]]

\* A MarshalJSON without the nil check: an assignment to an entry of a nil map
\* panics.
MarshalJSON_noNilCheck(d, h) ==
    IF d.Properties = NilRef
    THEN [bytes |-> JNull, err |-> FALSE, panic |-> TRUE, heap |-> h]
    ELSE LET m2 == MapSet(MapSet(h[d.Properties], "Name", d.Name), "Type", d.Type)
         IN  [bytes |-> jsonMarshalMap(m2), err |-> FALSE, panic |-> FALSE,
              heap |-> [h EXCEPT ![d.Properties] = m2]]

\* A MarshalJSON that marshals the two fields and leaves the properties out.
MarshalJSON_fieldsOnly(d, h) ==
    [bytes |-> jsonMarshalMap([Name |-> d.Name, Type |-> d.Type]),
     err |-> FALSE, panic |-> FALSE, heap |-> h]

\* func (d Destination) MarshalJSON() ([]byte, error).  The receiver is a copy
\* of the struct, so d.Properties = make(...) stays local, but a non-nil
\* d.Properties is the caller's map object and the two assignments write to it.
MarshalJSON(d, h) ==
    LET m0 == IF d.Properties = NilRef THEN EmptyMap ELSE h[d.Properties]
        m1 == MapSet(m0, "Name", d.Name)
        m2 == MapSet(m1, "Type", d.Type)
    IN  [bytes |-> jsonMarshalMap(m2), err |-> FALSE, panic |-> FALSE,
         heap |-> IF d.Properties = NilRef THEN h ELSE [h EXCEPT ![d.Properties] = m2]]

\* A decoder that keeps an unrecognised "Type" string as the type.
DestinationTypeOf_keeps(v) == v

\* The inner switch of UnmarshalJSON: the four names, else the empty type.
DestinationTypeOf(v) ==
    CASE v = "HTTP" -> HTTPDestination
      [] v = "RFC" -> RFCDestination
      [] v = "MAIL" -> MailDestination
      [] v = "LDAP" -> LDAPDestination
      [] OTHER -> ""

\* An UnmarshalJSON that makes the map before it parses the payload.
UnmarshalJSON_makesFirst(d, b) ==
    LET u == jsonUnmarshalMap(b)
    IN  IF u.err THEN [err |-> TRUE, d |-> DestVal(d.Name, d.Type, MadeProps(EmptyMap))]
        ELSE [err |-> FALSE,
              d |-> DestVal(IF "Name" \in DOMAIN u.m THEN u.m["Name"] ELSE d.Name,
                            IF "Type" \in DOMAIN u.m
                                THEN DestinationTypeOf(u.m["Type"]) ELSE d.Type,
                            MadeProps([k \in (DOMAIN u.m) \ ReservedKeys |-> u.m[k]]))]

\* An UnmarshalJSON that leaves Properties alone when there is nothing to store.
UnmarshalJSON_lazyMap(d, b) ==
    LET u == jsonUnmarshalMap(b)
        rest == [k \in (DOMAIN u.m) \ ReservedKeys |-> u.m[k]]
    IN  IF u.err THEN [err |-> TRUE, d |-> d]
        ELSE [err |-> FALSE,
              d |-> DestVal(IF "Name" \in DOMAIN u.m THEN u.m["Name"] ELSE d.Name,
                            IF "Type" \in DOMAIN u.m
                                THEN DestinationTypeOf(u.m["Type"]) ELSE d.Type,
                            IF rest = EmptyMap THEN d.Properties ELSE MadeProps(rest))]

\* An UnmarshalJSON that stores every pair, the reserved ones too.
UnmarshalJSON_storesAll(d, b) ==
    LET u == jsonUnmarshalMap(b)
    IN  IF u.err THEN [err |-> TRUE, d |-> d]
        ELSE [err |-> FALSE,
              d |-> DestVal(IF "Name" \in DOMAIN u.m THEN u.m["Name"] ELSE d.Name,
                            IF "Type" \in DOMAIN u.m
                                THEN DestinationTypeOf(u.m["Type"]) ELSE d.Type,
                            MadeProps(u.m))]

\* An UnmarshalJSON that swallows the error of json.Unmarshal.
UnmarshalJSON_noError(d, b) ==
    LET u == jsonUnmarshalMap(b)
    IN  [err |-> FALSE,
         d |-> DestVal(IF "Name" \in DOMAIN u.m THEN u.m["Name"] ELSE d.Name,
                       IF "Type" \in DOMAIN u.m
                           THEN DestinationTypeOf(u.m["Type"]) ELSE d.Type,
                       MadeProps([k \in (DOMAIN u.m) \ ReservedKeys |-> u.m[k]]))]

\* func (d *Destination) UnmarshalJSON(b []byte) error.  On an error the
\* receiver is returned as it was; otherwise Properties is a map made here, and
\* the loop visits every pair once: "Name" and "Type" go to the fields (which
\* keep their prior value when the payload has no such key), the rest to the map.
UnmarshalJSON(d, b) ==
    LET u == jsonUnmarshalMap(b)
    IN  IF u.err THEN [err |-> TRUE, d |-> d]
        ELSE [err |-> FALSE,
              d |-> DestVal(IF "Name" \in DOMAIN u.m THEN u.m["Name"] ELSE d.Name,
                            IF "Type" \in DOMAIN u.m
                                THEN DestinationTypeOf(u.m["Type"]) ELSE d.Type,
                            MadeProps([k \in (DOMAIN u.m) \ ReservedKeys |-> u.m[k]]))]

(***************************************************************************)
(* The inputs.                                                              *)
(***************************************************************************)
PropValsFor(k) == PropVals

\* The properties maps a caller builds.
PropMaps == MapsOver(Keys, MaxProps, PropValsFor)

NoHeap == [r \in {} |-> EmptyMap]

\* Non-string JSON values a payload may carry.
NonStrings == {JNull, JNum(1), JBool(TRUE), JObj(EmptyMap), JArr(<<>>)}

WireValsFor(k) ==
    {JStr(s) : s \in IF k = "Type" THEN TypeStrs ELSE Names \cup {"x"}} \cup NonStrings

\* The payloads handed to a decode: any top-level JSON value, the objects with
\* up to MaxProps members.
PayloadObjects == {JObj(f) : f \in MapsOver(Keys, MaxProps, WireValsFor)}
Payloads == PayloadObjects \cup {JNull, JNum(1), JBool(TRUE), JStr("x"), JArr(<<>>)}

\* The payloads of the service: a "Name", a "Type" and up to MaxProps other
\* members.
ServicePayloads ==
    {JObj(MapSet(MapSet(f, "Name", JStr(n)), "Type", JStr(t))) :
        f \in MapsOver(Keys \ ReservedKeys, MaxProps, WireValsFor),
        n \in Names, t \in TypeStrs}

\* The receivers a decode is given: a fresh Destination, and used ones.
Receivers ==
    {ZeroDestination,
     DestVal("old", LDAPDestination, MadeProps([URL |-> "old"])),
     DestVal("old", MailDestination, NilProps)}

NoArg == [d |-> ZeroDestination, b |-> JNull]
NoRequest == [method |-> "none"]
NoResponse == [kind |-> "none"]
NoRet == [err |-> FALSE]
NoClient == [restyClient |-> "nil"]
NoTransport == [token |-> FALSE, tokenRequests |-> 0, requests |-> 0, unsent |-> 0]

(***************************************************************************)
(* Encoding: the caller builds a Destination and encodes it, any number of  *)
(* times; or encodes it and decodes the bytes into a fresh Destination.     *)
(***************************************************************************)
EncodeInit ==
    /\ \E n \in Names, t \in TypeStrs :
          \/ dest = Destination(n, t, NilRef) /\ heap = NoHeap
          \/ \E m \in PropMaps : dest = Destination(n, t, "m1") /\ heap = [r \in Refs |-> m]
    /\ recv = ZeroDestination
    /\ pc = "idle"
    /\ op = "none"
    /\ arg = NoArg
    /\ request = NoRequest
    /\ response = NoResponse
    /\ ret = NoRet
    /\ client = NoClient
    /\ transport = NoTransport
    /\ calls = 0

\* data, err := d.MarshalJSON()
Encode ==
    /\ pc = "idle"
    /\ LET r == MarshalJSON(dest, heap)
       IN  /\ heap' = r.heap
           /\ ret' = [err |-> r.err, panic |-> r.panic, bytes |-> r.bytes]
    /\ op' = "MarshalJSON"
    /\ arg' = [d |-> ValueOf(dest, heap), b |-> JNull]
    /\ recv' = ZeroDestination
    /\ UNCHANGED <<dest, pc, request, response, client, transport, calls>>

\* data, _ := d.MarshalJSON(); var fresh Destination; err := fresh.UnmarshalJSON(data)
RoundTrip ==
    /\ pc = "idle"
    /\ LET r == MarshalJSON(dest, heap)
           u == UnmarshalJSON(ZeroDestination, r.bytes)
       IN  /\ ~r.panic
           /\ heap' = r.heap
           /\ recv' = u.d
           /\ ret' = [err |-> u.err, panic |-> r.panic, bytes |-> r.bytes]
    /\ op' = "RoundTrip"
    /\ arg' = [d |-> ValueOf(dest, heap), b |-> JNull]
    /\ UNCHANGED <<dest, pc, request, response, client, transport, calls>>

\* d.Name = n; d.Type = t: the caller changes the two fields and keeps the map.
\* A second Destination built on the same map is the same: a struct with other
\* fields and the same reference.
Assign ==
    /\ pc = "idle"
    /\ \E n \in Names, t \in TypeStrs :
          dest' = Destination(n, t, dest.Properties)
    /\ op' = "Assign"
    /\ UNCHANGED <<heap, recv, arg, ret, pc, request, response, client, transport, calls>>

EncodeNext == Encode \/ RoundTrip \/ Assign

EncodeSpec == EncodeInit /\ [][EncodeNext]_vars

(***************************************************************************)
(* Decoding: a payload is decoded into a receiver.                          *)
(***************************************************************************)
DecodeInit ==
    /\ recv \in Receivers
    /\ dest = Destination("", "", NilRef)
    /\ heap = NoHeap
    /\ pc = "idle"
    /\ op = "none"
    /\ arg = NoArg
    /\ request = NoRequest
    /\ response = NoResponse
    /\ ret = NoRet
    /\ client = NoClient
    /\ transport = NoTransport
    /\ calls = 0

\* err := d.UnmarshalJSON(b)
Decode ==
    /\ pc = "idle"
    /\ op = "none"
    /\ \E b \in Payloads :
          LET u == UnmarshalJSON(recv, b)
          IN  /\ recv' = u.d
              /\ ret' = [err |-> u.err]
              /\ arg' = [d |-> recv, b |-> b]
    /\ op' = "UnmarshalJSON"
    /\ UNCHANGED <<dest, heap, pc, request, response, client, transport, calls>>

\* var fresh Destination; err := fresh.UnmarshalJSON(b); data, _ := fresh.MarshalJSON()
\* for a payload that decodes: the map UnmarshalJSON made is the object m1.
WireRoundTrip ==
    /\ pc = "idle"
    /\ op = "none"
    /\ \E b \in Payloads \cup ServicePayloads :
          LET u == UnmarshalJSON(ZeroDestination, b)
              d == Destination(u.d.Name, u.d.Type, "m1")
              r == MarshalJSON(d, [ref \in Refs |-> u.d.Properties.kv])
          IN  /\ ~u.err
              /\ dest' = d
              /\ heap' = r.heap
              /\ recv' = u.d
              /\ ret' = [err |-> r.err, panic |-> r.panic, bytes |-> r.bytes]
              /\ arg' = [d |-> ZeroDestination, b |-> b]
    /\ op' = "WireRoundTrip"
    /\ UNCHANGED <<pc, request, response, client, transport, calls>>

DecodeNext == Decode \/ WireRoundTrip

DecodeSpec == DecodeInit /\ [][DecodeNext]_vars

(***************************************************************************)
(* encoding/json on the other types of types.go, which carry no codec of    *)
(* their own: a struct takes the members named by its tags, a null or       *)
(* missing member leaves the field at its zero value, a member of another   *)
(* JSON type is an UnmarshalTypeError, and so is any top-level value that   *)
(* is neither an object nor null.  The bodies drawn below spell member      *)
(* names as the tags do.  Each decoder returns the error and, when there is *)
(* none, the value.                                                         *)
(***************************************************************************)
Member(b, key) == IF key \in DOMAIN b.fields THEN b.fields[key] ELSE JNull

decString(v) ==
    IF v.t = "string" THEN [err |-> FALSE, val |-> v.s]
    ELSE [err |-> v.t # "null", val |-> ""]

decInt(v) ==
    IF v.t = "number" THEN [err |-> FALSE, val |-> v.n]
    ELSE [err |-> v.t # "null", val |-> 0]

\* type ErrorMessage struct: ErrorMessage string `json:"ErrorMessage"`; the
\* unexported statusCode is no part of the JSON.
jsonUnmarshalErrorMessage(b) ==
    IF b.t = "null" THEN [err |-> FALSE, val |-> ""]
    ELSE IF b.t # "object" THEN [err |-> TRUE, val |-> ""]
    ELSE decString(Member(b, "ErrorMessage"))

ZeroAffectedRecords == [Count |-> 0]

\* type AffectedRecords struct: Count int `json:"count"`.
jsonUnmarshalAffectedRecords(b) ==
    IF b.t = "null" THEN [err |-> FALSE, val |-> ZeroAffectedRecords]
    ELSE IF b.t # "object" THEN [err |-> TRUE, val |-> ZeroAffectedRecords]
    ELSE LET c == decInt(Member(b, "count"))
         IN  [err |-> c.err, val |-> [Count |-> c.val]]

ZeroCertificate == [Name |-> "", Type |-> "", Content |-> ""]

\* type Certificate struct: Name, Type, Content.
jsonUnmarshalCertificate(b) ==
    IF b.t = "null" THEN [err |-> FALSE, val |-> ZeroCertificate]
    ELSE IF b.t # "object" THEN [err |-> TRUE, val |-> ZeroCertificate]
    ELSE LET n == decString(Member(b, "Name"))
             t == decString(Member(b, "Type"))
             c == decString(Member(b, "Content"))
         IN  [err |-> n.err \/ t.err \/ c.err,
              val |-> [Name |-> n.val, Type |-> t.val, Content |-> c.val]]

\* json.Marshal of a Certificate: its three fields under their tags.
jsonMarshalCertificate(c) ==
    JObj([Name |-> JStr(c.Name), Type |-> JStr(c.Type), Content |-> JStr(c.Content)])

ZeroAuthToken == [Type |-> "", Value |-> ""]

\* type AuthToken struct: Type `json:"type"`, Value `json:"value"`.
jsonUnmarshalAuthToken(b) ==
    IF b.t = "null" THEN [err |-> FALSE, val |-> ZeroAuthToken]
    ELSE IF b.t # "object" THEN [err |-> TRUE, val |-> ZeroAuthToken]
    ELSE LET t == decString(Member(b, "type"))
             v == decString(Member(b, "value"))
         IN  [err |-> t.err \/ v.err, val |-> [Type |-> t.val, Value |-> v.val]]

ZeroOwner == [SubaccountID |-> "", InstanceID |-> ""]

\* type Owner struct: SubaccountID `json:"SubaccountId"`, InstanceID `json:"InstanceId"`.
jsonUnmarshalOwner(b) ==
    IF b.t = "null" THEN [err |-> FALSE, val |-> ZeroOwner]
    ELSE IF b.t # "object" THEN [err |-> TRUE, val |-> ZeroOwner]
    ELSE LET sa == decString(Member(b, "SubaccountId"))
             i == decString(Member(b, "InstanceId"))
         IN  [err |-> sa.err \/ i.err,
              val |-> [SubaccountID |-> sa.val, InstanceID |-> i.val]]

\* A Go slice: nil, or a made one with its elements.
NilList == [isNil |-> TRUE, items |-> <<>>]
MadeList(items) == [isNil |-> FALSE, items |-> items]

\* json.Unmarshal into a slice: null makes the slice nil, an array decodes
\* element by element (dec is the element's decoder), anything else is an
\* UnmarshalTypeError.
jsonUnmarshalSlice(b, dec(_)) ==
    IF b.t = "null" THEN [err |-> FALSE, val |-> NilList]
    ELSE IF b.t # "array" THEN [err |-> TRUE, val |-> NilList]
    ELSE [err |-> \E i \in DOMAIN b.items : dec(b.items[i]).err,
          val |-> MadeList([i \in DOMAIN b.items |-> dec(b.items[i]).val])]

\* Decoding a JSON value into a Destination that holds the zero value: json
\* hands every value, null included, to UnmarshalJSON.
jsonUnmarshalDestination(b) ==
    LET u == UnmarshalJSON(ZeroDestination, b)
    IN  [err |-> u.err, val |-> u.d]

ZeroLookupResult ==
    [Owner |-> ZeroOwner, Destination |-> ZeroDestination,
     Certificates |-> NilList, AuthTokens |-> NilList]

\* A DestinationLookupResult whose Destination field has no JSON name: the
\* "destinationConfiguration" member is passed over.
jsonUnmarshalLookupResult_skipsDestination(b) ==
    IF b.t = "null" THEN [err |-> FALSE, val |-> ZeroLookupResult]
    ELSE IF b.t # "object" THEN [err |-> TRUE, val |-> ZeroLookupResult]
    ELSE LET o == jsonUnmarshalOwner(Member(b, "owner"))
             c == jsonUnmarshalSlice(Member(b, "certificates"), jsonUnmarshalCertificate)
             a == jsonUnmarshalSlice(Member(b, "authTokens"), jsonUnmarshalAuthToken)
         IN  [err |-> o.err \/ c.err \/ a.err,
              val |-> [Owner |-> o.val, Destination |-> ZeroDestination,
                       Certificates |-> c.val, AuthTokens |-> a.val]]

\* type DestinationLookupResult struct: owner, destinationConfiguration (the
\* Destination, decoded by its UnmarshalJSON when the member is there),
\* certificates, authTokens.
jsonUnmarshalLookupResult(b) ==
    IF b.t = "null" THEN [err |-> FALSE, val |-> ZeroLookupResult]
    ELSE IF b.t # "object" THEN [err |-> TRUE, val |-> ZeroLookupResult]
    ELSE LET o == jsonUnmarshalOwner(Member(b, "owner"))
             d == IF "destinationConfiguration" \in DOMAIN b.fields
                  THEN jsonUnmarshalDestination(b.fields["destinationConfiguration"])
                  ELSE [err |-> FALSE, val |-> ZeroDestination]
             c == jsonUnmarshalSlice(Member(b, "certificates"), jsonUnmarshalCertificate)
             a == jsonUnmarshalSlice(Member(b, "authTokens"), jsonUnmarshalAuthToken)
         IN  [err |-> o.err \/ d.err \/ c.err \/ a.err,
              val |-> [Owner |-> o.val, Destination |-> d.val,
                       Certificates |-> c.val, AuthTokens |-> a.val]]

(***************************************************************************)
(* The gateway.  Every method of DestinationClient builds one resty request *)
(* (SetResult, SetError, SetBody, SetPathParams, a verb and a path), waits  *)
(* for the transport, and maps what came back to its result and error.      *)
(***************************************************************************)
\* Methods that declare their lists as `var retval []Destination`, without make.
ZeroResult_nilLists(kind) ==
    CASE kind = "lookup" -> ZeroLookupResult
      [] kind = "destination" -> ZeroDestination
      [] kind = "destinations" -> NilList
      [] kind = "certificate" -> ZeroCertificate
      [] kind = "certificates" -> NilList
      [] kind = "affected" -> ZeroAffectedRecords
      [] OTHER -> [none |-> TRUE]

\* What a method declares as `var retval` before the request.
ZeroResult(kind) ==
    CASE kind = "lookup" -> ZeroLookupResult
      [] kind = "destination" -> ZeroDestination
      [] kind = "destinations" -> MadeList(<<>>)
      [] kind = "certificate" -> ZeroCertificate
      [] kind = "certificates" -> MadeList(<<>>)
      [] kind = "affected" -> ZeroAffectedRecords
      [] OTHER -> [none |-> TRUE]

\* json.Unmarshal(body, &retval) for the result type of the method.
jsonUnmarshalResult(kind, b) ==
    CASE kind = "lookup" -> jsonUnmarshalLookupResult(b)
      [] kind = "destination" -> jsonUnmarshalDestination(b)
      [] kind = "destinations" -> jsonUnmarshalSlice(b, jsonUnmarshalDestination)
      [] kind = "certificate" -> jsonUnmarshalCertificate(b)
      [] kind = "certificates" -> jsonUnmarshalSlice(b, jsonUnmarshalCertificate)
      [] kind = "affected" -> jsonUnmarshalAffectedRecords(b)
      [] OTHER -> [err |-> FALSE, val |-> ZeroResult(kind)]

\* A result that a failed json.Unmarshal left partly filled: which members it
\* holds depends on their order in the document, and is not tracked.
PartialResult == [partial |-> TRUE]

NoError == [kind |-> "nil"]

\* resty's handling of a response, as set up by SetResult(&retval) and
\* SetError(&errResponse): nothing is decoded for status 204 or for a content
\* type other than JSON; a status from 200 to 299 decodes the body into the
\* result (when the request has one), and a decoding failure is the error of
\* the request; a status above 399 decodes the body into the error object,
\* and a decoding failure there is, depending on the release of the library,
\* the error of the request or a warning in its log (warn).
parseResponseBody(kind, r, warn) ==
    LET none == [err |-> FALSE, result |-> ZeroResult(kind), ErrorMessage |-> ""]
    IN  IF r.status = 204 \/ ~r.json THEN none
        ELSE IF r.status > 199 /\ r.status < 300
        THEN IF kind = "none" THEN none
             ELSE LET u == jsonUnmarshalResult(kind, r.body)
                  IN  [err |-> u.err,
                       result |-> IF u.err THEN PartialResult ELSE u.val,
                       ErrorMessage |-> ""]
        ELSE IF r.status > 399
        THEN LET e == jsonUnmarshalErrorMessage(r.body)
             IN  [err |-> e.err /\ ~warn, result |-> ZeroResult(kind),
                  ErrorMessage |-> e.val]
        ELSE none

\* A method that takes the status from the body's point of view: any
\* response whose body decodes counts as the expected one.
Complete_anyStatus(kind, expect, out, warn) ==
    IF out.kind = "error"
    THEN [result |-> ZeroResult(kind), error |-> [kind |-> "transport", err |-> out.err]]
    ELSE LET p == parseResponseBody(kind, out, warn)
         IN  IF p.err THEN [result |-> p.result, error |-> [kind |-> "decode"]]
             ELSE [result |-> p.result, error |-> NoError]

\* A method that forgets errResponse.statusCode = response.StatusCode().
Complete_noStatusCode(kind, expect, out, warn) ==
    IF out.kind = "error"
    THEN [result |-> ZeroResult(kind), error |-> [kind |-> "transport", err |-> out.err]]
    ELSE LET p == parseResponseBody(kind, out, warn)
         IN  IF p.err THEN [result |-> p.result, error |-> [kind |-> "decode"]]
             ELSE IF out.status # expect
             THEN [result |-> p.result,
                   error |-> [kind |-> "ErrorMessage", ErrorMessage |-> p.ErrorMessage,
                              statusCode |-> 0]]
             ELSE [result |-> p.result, error |-> NoError]

\* A method that answers a failed transport with an error of its own making.
Complete_wrapsError(kind, expect, out, warn) ==
    IF out.kind = "error"
    THEN [result |-> ZeroResult(kind), error |-> [kind |-> "transport", err |-> "request failed"]]
    ELSE LET p == parseResponseBody(kind, out, warn)
         IN  IF p.err THEN [result |-> p.result, error |-> [kind |-> "decode"]]
             ELSE IF out.status # expect
             THEN [result |-> p.result,
                   error |-> [kind |-> "ErrorMessage", ErrorMessage |-> p.ErrorMessage,
                              statusCode |-> out.status]]
             ELSE [result |-> p.result, error |-> NoError]

\* A method that looks at the status before it looks at err: a response that
\* never came has status 0.
Complete_statusFirst(kind, expect, out, warn) ==
    IF out.kind = "error"
    THEN [result |-> ZeroResult(kind),
          error |-> [kind |-> "ErrorMessage", ErrorMessage |-> "", statusCode |-> 0]]
    ELSE LET p == parseResponseBody(kind, out, warn)
         IN  IF out.status # expect
             THEN [result |-> p.result,
                   error |-> [kind |-> "ErrorMessage", ErrorMessage |-> p.ErrorMessage,
                              statusCode |-> out.status]]
             ELSE IF p.err THEN [result |-> p.result, error |-> [kind |-> "decode"]]
             ELSE [result |-> p.result, error |-> NoError]

\* The lines every method ends with:
\*     if err != nil { return retval, err }
\*     if response.StatusCode() != expect {
\*         errResponse.statusCode = response.StatusCode(); return retval, errResponse }
\*     return retval, nil
Complete(kind, expect, out, warn) ==
    IF out.kind = "error"
    THEN [result |-> ZeroResult(kind), error |-> [kind |-> "transport", err |-> out.err]]
    ELSE LET p == parseResponseBody(kind, out, warn)
         IN  IF p.err THEN [result |-> p.result, error |-> [kind |-> "decode"]]
             ELSE IF out.status # expect
             THEN [result |-> p.result,
                   error |-> [kind |-> "ErrorMessage", ErrorMessage |-> p.ErrorMessage,
                              statusCode |-> out.status]]
             ELSE [result |-> p.result, error |-> NoError]

(***************************************************************************)
(* What the transport may answer.                                           *)
(***************************************************************************)
Statuses == {200, 201, 204, 302, 404}

P1 == JObj([Name |-> JStr("d1"), Type |-> JStr("RFC"), URL |-> JStr("x")])
P2 == JObj([Name |-> JStr("d1"), Type |-> JStr("UNKNOWN")])
PEmpty == JObj(EmptyMap)
PBad == JObj([Name |-> JNum(1)])
ErrBody == JObj([ErrorMessage |-> JStr("not found")])
ErrBad == JObj([ErrorMessage |-> JNum(1)])
InvalidJSON == [t |-> "invalid"]
C1Body == JObj([Name |-> JStr("c1"), Type |-> JStr("CERTIFICATE"), Content |-> JStr("x")])
T1Body == JObj([type |-> JStr("Bearer"), value |-> JStr("x")])
OwnerBody == JObj([SubaccountId |-> JStr("sa")])
CountBody == JObj([count |-> JNum(1)])

SeqsUpTo(S, n) == UNION {[1..k -> S] : k \in 0..n}

\* The members of a find response: each one there or not.
LookupBodies ==
    {JObj(f) : f \in {g \in MapsOver({"owner", "destinationConfiguration", "certificates",
                                        "authTokens"}, 4,
                                       LAMBDA k : {OwnerBody, P1, P2, PEmpty, PBad, JNull,
                                                   JArr(<<C1Body>>), JArr(<<T1Body>>)}) :
                        /\ "owner" \in DOMAIN g => g["owner"] = OwnerBody
                        /\ "destinationConfiguration" \in DOMAIN g =>
                              g["destinationConfiguration"] \in {P1, P2, PEmpty, PBad, JNull}
                        /\ "certificates" \in DOMAIN g => g["certificates"] = JArr(<<C1Body>>)
                        /\ "authTokens" \in DOMAIN g => g["authTokens"] = JArr(<<T1Body>>)}}

ResultBodies(kind) ==
    CASE kind = "lookup" -> LookupBodies \cup {JNull}
      [] kind = "destination" -> {P1, P2, PEmpty, PBad, JNull}
      [] kind = "destinations" ->
            {JArr(q) : q \in SeqsUpTo({P1, PEmpty, PBad}, MaxList)} \cup {JNull, PEmpty}
      [] kind = "certificate" -> {C1Body, PEmpty, PBad}
      [] kind = "certificates" ->
            {JArr(q) : q \in SeqsUpTo({C1Body, PBad}, MaxList)} \cup {JNull}
      [] kind = "affected" -> {CountBody, PEmpty, JObj([count |-> JStr("x")])}
      [] OTHER -> {PEmpty}

\* The transport fails, or delivers a response: its status, whether its
\* content type is JSON, and its body.
TransportErrors == {"timeout", "refused"}

Failures == {[kind |-> "error", err |-> e] : e \in TransportErrors}

Outcomes(kind) ==
    Failures \cup
    {[kind |-> "response", status |-> st, json |-> j, body |-> b] :
        st \in Statuses, j \in BOOLEAN,
        b \in ResultBodies(kind) \cup {ErrBody, ErrBad, InvalidJSON}}

Tokens == {"", "tok"}
NoHeader == [set |-> FALSE, value |-> ""]
NoBody == [t |-> "none"]
Certificates == {ZeroCertificate, [Name |-> "c1", Type |-> "CERTIFICATE", Content |-> "x"]}

\* The Destinations a caller hands to create and update.
GatewayDestinations ==
    {<<Destination("d1", t, NilRef), NoHeap>> : t \in {HTTPDestination, "UNKNOWN"}} \cup
    {<<Destination("", "", NilRef), NoHeap>>} \cup
    {<<Destination("d1", HTTPDestination, "m1"), [r \in Refs |-> m]>> :
        m \in {EmptyMap, [URL |-> "x"], [Name |-> "x", URL |-> "x"]}}

\* The DestinationClientConfiguration values a caller may pass: every field
\* empty, or the values of a service binding.
Configurations ==
    {[ClientID |-> "", ClientSecret |-> "", TokenURL |-> "", ServiceURL |-> ""],
     [ClientID |-> "id", ClientSecret |-> "secret",
      TokenURL |-> "https://auth", ServiceURL |-> "https://svc"]}

TokenPath == "/oauth/token"
BasePath == "/destination-configuration/v1"

\* No client is built yet; the caller holds a Destination to work with.
Init ==
    /\ \E g \in GatewayDestinations : dest = g[1] /\ heap = g[2]
    /\ recv = ZeroDestination
    /\ pc = "new"
    /\ op = "none"
    /\ arg = NoArg
    /\ request = NoRequest
    /\ response = NoResponse
    /\ ret = NoRet
    /\ client = NoClient
    /\ transport = NoTransport
    /\ calls = 0

\* A NewClient that asks for a token while it builds the client.
NewClient_eager ==
    /\ pc = "new"
    /\ \E clientConf \in Configurations :
          /\ client' = [conf |-> [ClientID |-> clientConf.ClientID,
                                  ClientSecret |-> clientConf.ClientSecret,
                                  TokenURL |-> clientConf.TokenURL \o TokenPath],
                        restyClient |-> [HostURL |-> clientConf.ServiceURL \o BasePath,
                                         Accept |-> "application/json"]]
          /\ arg' = [clientConf |-> clientConf]
    /\ transport' = [transport EXCEPT !.tokenRequests = @ + 1]
    /\ op' = "NewClient"
    /\ ret' = [result |-> "client", error |-> NoError]
    /\ pc' = "idle"
    /\ UNCHANGED <<heap, dest, recv, request, response, calls>>

\* NewClient(clientConf): the client-credentials configuration with the
\* token endpoint, an HTTP client over its token source (which holds no token
\* and asks for none yet), and a resty client with the base URL and the Accept
\* header.  It returns the client and a nil error, whatever clientConf holds.
NewClient ==
    /\ pc = "new"
    /\ \E clientConf \in Configurations :
          /\ client' = [conf |-> [ClientID |-> clientConf.ClientID,
                                  ClientSecret |-> clientConf.ClientSecret,
                                  TokenURL |-> clientConf.TokenURL \o TokenPath],
                        restyClient |-> [HostURL |-> clientConf.ServiceURL \o BasePath,
                                         Accept |-> "application/json"]]
          /\ arg' = [clientConf |-> clientConf]
    /\ op' = "NewClient"
    /\ ret' = [result |-> "client", error |-> NoError]
    /\ pc' = "idle"
    /\ UNCHANGED <<heap, dest, recv, request, response, transport, calls>>

\* A URL that is more than its path: it names a scheme and a host to send to.
HasHost(url, path) == url # path

\* A transport that sends a request again when it has sent it.
TransportSend_retries(c, t) ==
    {[transport |-> [t EXCEPT !.token = TRUE, !.requests = @ + 2], sent |-> TRUE]}

\* The HTTP client that conf.Client(ctx) built takes a request.  Its transport
\* first needs a token: it reuses the one it holds while that is valid, and
\* otherwise asks the token endpoint for one, which may fail; then it sends
\* the request to the service.  A URL without scheme and host cannot be sent
\* to.  The outcomes: the transport afterwards, and whether the request got
\* on its way to the service.
TransportSend(c, t) ==
    LET service(u) ==
            IF HasHost(c.restyClient.HostURL, BasePath)
            THEN [transport |-> [u EXCEPT !.requests = @ + 1], sent |-> TRUE]
            ELSE [transport |-> [u EXCEPT !.unsent = @ + 1], sent |-> FALSE]
        asked == [t EXCEPT !.tokenRequests = @ + 1]
    IN  IF t.token THEN {service(t)}
        ELSE IF ~HasHost(c.conf.TokenURL, TokenPath)
        THEN {[transport |-> [t EXCEPT !.unsent = @ + 1], sent |-> FALSE]}
        ELSE {[transport |-> [asked EXCEPT !.unsent = @ + 1], sent |-> FALSE],
              service([asked EXCEPT !.token = TRUE])}

\* The token the transport holds reaches its expiry between two calls.
TokenExpires ==
    /\ pc = "idle"
    /\ calls < MaxCalls
    /\ transport.token
    /\ transport' = [transport EXCEPT !.token = FALSE]
    /\ UNCHANGED <<heap, dest, recv, pc, op, arg, request, response, ret, client, calls>>

\* d.restyClient.R()...Get/Post/Put/Delete(path): the method builds its one
\* request and hands it to the transport.
Issue(o, method, url, header, body, a) ==
    /\ pc = "idle"
    /\ calls < MaxCalls
    /\ calls' = calls + 1
    /\ \E s \in TransportSend(client, transport) :
          /\ transport' = s.transport
          /\ pc' = IF s.sent THEN "waiting" ELSE "refused"
    /\ op' = o
    /\ arg' = a
    /\ request' = [method |-> method, url |-> url, userToken |-> header, body |-> body]
    /\ response' = NoResponse
    /\ ret' = NoRet
    /\ UNCHANGED <<dest, heap, recv, client>>

\* The same with SetBody(dest): resty marshals the struct it was given, a copy
\* of the caller's Destination, through Destination.MarshalJSON, before the
\* request goes to the transport.
IssueDestination(o, method, url) ==
    /\ pc = "idle"
    /\ calls < MaxCalls
    /\ calls' = calls + 1
    /\ LET r == MarshalJSON(dest, heap)
       IN  /\ heap' = r.heap
           /\ request' = [method |-> method, url |-> url, userToken |-> NoHeader,
                          body |-> r.bytes]
           /\ IF r.panic
              THEN pc' = "panic" /\ transport' = transport
              ELSE \E s \in TransportSend(client, transport) :
                      /\ transport' = s.transport
                      /\ pc' = IF s.sent THEN "waiting" ELSE "refused"
    /\ op' = o
    /\ arg' = [d |-> ValueOf(dest, heap), b |-> JNull]
    /\ response' = NoResponse
    /\ ret' = NoRet
    /\ UNCHANGED <<dest, recv, client>>

\* A method that hears nothing of a request that did not get on its way, and
\* waits for it without end.
Return_deaf(o, kind, expect) ==
    /\ pc = "waiting"
    /\ op = o
    /\ \E out \in Outcomes(kind), warn \in BOOLEAN :
          /\ response' = out
          /\ ret' = Complete(kind, expect, out, warn)
    /\ pc' = "idle"
    /\ UNCHANGED <<heap, dest, recv, op, arg, request, client, transport, calls>>

\* The transport answers, or fails, and the method returns.  A request that
\* did not get on its way can only fail.
Return(o, kind, expect) ==
    /\ pc \in {"waiting", "refused"}
    /\ op = o
    /\ \E out \in (IF pc = "waiting" THEN Outcomes(kind) ELSE Failures), warn \in BOOLEAN :
          /\ response' = out
          /\ ret' = Complete(kind, expect, out, warn)
    /\ pc' = "idle"
    /\ UNCHANGED <<heap, dest, recv, op, arg, request, client, transport, calls>>

\* if userToken != "" { request.SetHeader("X-user-token", userToken) }, seen
\* the other way round: a request that always carries the header.
UserTokenHeader_always(userToken) == [set |-> TRUE, value |-> userToken]

\* if userToken != "" { request.SetHeader("X-user-token", userToken) }
UserTokenHeader(userToken) ==
    IF userToken # "" THEN [set |-> TRUE, value |-> userToken] ELSE NoHeader

NameArg(name) == [name |-> name]

\* Find's request: the one request that may carry the header X-user-token.
IssueFind(name, userToken) ==
    /\ pc = "idle"
    /\ calls < MaxCalls
    /\ calls' = calls + 1
    /\ \E s \in TransportSend(client, transport) :
          /\ transport' = s.transport
          /\ pc' = IF s.sent THEN "waiting" ELSE "refused"
    /\ op' = "Find"
    /\ arg' = [name |-> name, userToken |-> userToken]
    /\ request' = [method |-> "GET", url |-> <<"destinations", name>>,
                  userToken |-> UserTokenHeader(userToken), body |-> NoBody]
    /\ response' = NoResponse
    /\ ret' = NoRet
    /\ UNCHANGED <<dest, heap, recv, client>>

\* The same with SetBody(cert): the request of a create method for a
\* Certificate, which encoding/json marshals field by field.
IssueCertificate(o, url, cert) ==
    /\ pc = "idle"
    /\ calls < MaxCalls
    /\ calls' = calls + 1
    /\ \E s \in TransportSend(client, transport) :
          /\ transport' = s.transport
          /\ pc' = IF s.sent THEN "waiting" ELSE "refused"
    /\ op' = o
    /\ arg' = [cert |-> cert]
    /\ request' = [method |-> "POST", url |-> url, userToken |-> NoHeader,
                  body |-> jsonMarshalCertificate(cert)]
    /\ response' = NoResponse
    /\ ret' = NoRet
    /\ UNCHANGED <<dest, heap, recv, client>>

Find ==
    \/ \E name \in Names, userToken \in Tokens : IssueFind(name, userToken)
    \/ Return("Find", "lookup", 200)

GetSubaccountDestinations ==
    \/ Issue("GetSubaccountDestinations", "GET", <<"subaccountDestinations">>,
             NoHeader, NoBody, NoArg)
    \/ Return("GetSubaccountDestinations", "destinations", 200)

CreateSubaccountDestination ==
    \/ IssueDestination("CreateSubaccountDestination", "POST", <<"subaccountDestinations">>)
    \/ Return("CreateSubaccountDestination", "none", 201)

\* An update that posts the Destination, as a create does.
UpdateSubaccountDestination_posts ==
    \/ IssueDestination("UpdateSubaccountDestination", "POST", <<"subaccountDestinations">>)
    \/ Return("UpdateSubaccountDestination", "affected", 200)

UpdateSubaccountDestination ==
    \/ IssueDestination("UpdateSubaccountDestination", "PUT", <<"subaccountDestinations">>)
    \/ Return("UpdateSubaccountDestination", "affected", 200)

GetSubaccountDestination ==
    \/ \E name \in Names :
          Issue("GetSubaccountDestination", "GET", <<"subaccountDestinations", name>>,
                NoHeader, NoBody, NameArg(name))
    \/ Return("GetSubaccountDestination", "destination", 200)

DeleteSubaccountDestination ==
    \/ \E name \in Names :
          Issue("DeleteSubaccountDestination", "DELETE", <<"subaccountDestinations", name>>,
                NoHeader, NoBody, NameArg(name))
    \/ Return("DeleteSubaccountDestination", "affected", 200)

GetSubaccountCertificates ==
    \/ Issue("GetSubaccountCertificates", "GET", <<"subaccountCertificates">>,
             NoHeader, NoBody, NoArg)
    \/ Return("GetSubaccountCertificates", "certificates", 200)

CreateSubaccountCertificate ==
    \/ \E cert \in Certificates :
          IssueCertificate("CreateSubaccountCertificate", <<"subaccountCertificates">>, cert)
    \/ Return("CreateSubaccountCertificate", "none", 201)

GetSubaccountCertificate ==
    \/ \E name \in Names :
          Issue("GetSubaccountCertificate", "GET", <<"subaccountCertificate", name>>,
                NoHeader, NoBody, NameArg(name))
    \/ Return("GetSubaccountCertificate", "certificate", 200)

DeleteSubaccountCertificate ==
    \/ \E name \in Names :
          Issue("DeleteSubaccountCertificate", "DELETE", <<"subaccountCertificate", name>>,
                NoHeader, NoBody, NameArg(name))
    \/ Return("DeleteSubaccountCertificate", "affected", 200)

GetInstanceDestinations ==
    \/ Issue("GetInstanceDestinations", "GET", <<"instanceDestinations">>,
             NoHeader, NoBody, NoArg)
    \/ Return("GetInstanceDestinations", "destinations", 200)

CreateInstanceDestination ==
    \/ IssueDestination("CreateInstanceDestination", "POST", <<"instanceDestinations">>)
    \/ Return("CreateInstanceDestination", "none", 201)

\* An InstanceDestinationManager without a method to replace a destination.
UpdateInstanceDestination_absent == FALSE /\ UNCHANGED vars

UpdateInstanceDestination ==
    \/ IssueDestination("UpdateInstanceDestination", "PUT", <<"instanceDestinations">>)
    \/ Return("UpdateInstanceDestination", "affected", 200)

GetInstanceDestination ==
    \/ \E name \in Names :
          Issue("GetInstanceDestination", "GET", <<"instanceDestinations", name>>,
                NoHeader, NoBody, NameArg(name))
    \/ Return("GetInstanceDestination", "destination", 200)

DeleteInstanceDestination ==
    \/ \E name \in Names :
          Issue("DeleteInstanceDestination", "DELETE", <<"instanceDestinations", name>>,
                NoHeader, NoBody, NameArg(name))
    \/ Return("DeleteInstanceDestination", "affected", 200)

GetInstanceCertificates ==
    \/ Issue("GetInstanceCertificates", "GET", <<"instanceCertificates">>,
             NoHeader, NoBody, NoArg)
    \/ Return("GetInstanceCertificates", "certificates", 200)

CreateInstanceCertificate ==
    \/ \E cert \in Certificates :
          IssueCertificate("CreateInstanceCertificate", <<"instanceCertificates">>, cert)
    \/ Return("CreateInstanceCertificate", "none", 201)

\* A GetInstanceCertificate that asks for the certificate of the subaccount.
GetInstanceCertificate_subaccountPath ==
    \/ \E name \in Names :
          Issue("GetInstanceCertificate", "GET", <<"subaccountCertificate", name>>,
                NoHeader, NoBody, NameArg(name))
    \/ Return("GetInstanceCertificate", "certificate", 200)

GetInstanceCertificate ==
    \/ \E name \in Names :
          Issue("GetInstanceCertificate", "GET", <<"instanceCertificate", name>>,
                NoHeader, NoBody, NameArg(name))
    \/ Return("GetInstanceCertificate", "certificate", 200)

DeleteInstanceCertificate ==
    \/ \E name \in Names :
          Issue("DeleteInstanceCertificate", "DELETE", <<"instanceCertificate", name>>,
                NoHeader, NoBody, NameArg(name))
    \/ Return("DeleteInstanceCertificate", "affected", 200)

Next ==
    \/ NewClient
    \/ TokenExpires
    \/ Find
    \/ GetSubaccountDestinations
    \/ CreateSubaccountDestination
    \/ UpdateSubaccountDestination
    \/ GetSubaccountDestination
    \/ DeleteSubaccountDestination
    \/ GetSubaccountCertificates
    \/ CreateSubaccountCertificate
    \/ GetSubaccountCertificate
    \/ DeleteSubaccountCertificate
    \/ GetInstanceDestinations
    \/ CreateInstanceDestination
    \/ UpdateInstanceDestination
    \/ GetInstanceDestination
    \/ DeleteInstanceDestination
    \/ GetInstanceCertificates
    \/ CreateInstanceCertificate
    \/ GetInstanceCertificate
    \/ DeleteInstanceCertificate

Spec == Init /\ [][Next]_vars

\* A client in use, with one more call to come: it was built from either
\* configuration, and each call so far was GetSubaccountDestinations and ended
\* in a failure of the transport (after the request was sent, or before). The
\* caller holds a Destination with one custom property.
LiveInit ==
    /\ dest = Destination("d1", HTTPDestination, "m1")
    /\ heap = [r \in Refs |-> [URL |-> "x"]]
    /\ recv = ZeroDestination
    /\ pc = "idle"
    /\ calls = MaxCalls - 1
    /\ op = IF calls = 0 THEN "NewClient" ELSE "GetSubaccountDestinations"
    /\ arg = NoArg
    /\ request = [method |-> "GET", url |-> <<"subaccountDestinations">>,
                  userToken |-> NoHeader, body |-> NoBody]
    /\ response = [kind |-> "error", err |-> "timeout"]
    /\ ret = Complete("destinations", 200, response, FALSE)
    /\ \/ /\ client = [conf |-> [ClientID |-> "id", ClientSecret |-> "secret",
                                 TokenURL |-> "https://auth" \o TokenPath],
                       restyClient |-> [HostURL |-> "https://svc" \o BasePath,
                                        Accept |-> "application/json"]]
          /\ transport = [token |-> TRUE, tokenRequests |-> 1,
                          requests |-> calls, unsent |-> 0]
       \/ /\ client = [conf |-> [ClientID |-> "", ClientSecret |-> "",
                                 TokenURL |-> TokenPath],
                       restyClient |-> [HostURL |-> BasePath,
                                        Accept |-> "application/json"]]
          /\ transport = [token |-> FALSE, tokenRequests |-> 0,
                          requests |-> 0, unsent |-> calls]

\* The operations of a client that is built.
LiveNext ==
    \/ TokenExpires
    \/ Find
    \/ GetSubaccountDestinations
    \/ CreateSubaccountDestination
    \/ UpdateSubaccountDestination
    \/ GetSubaccountDestination
    \/ DeleteSubaccountDestination
    \/ GetSubaccountCertificates
    \/ CreateSubaccountCertificate
    \/ GetSubaccountCertificate
    \/ DeleteSubaccountCertificate
    \/ GetInstanceDestinations
    \/ CreateInstanceDestination
    \/ UpdateInstanceDestination
    \/ GetInstanceDestination
    \/ DeleteInstanceDestination
    \/ GetInstanceCertificates
    \/ CreateInstanceCertificate
    \/ GetInstanceCertificate
    \/ DeleteInstanceCertificate

\* The transport answers every request: it delivers a response or reports a
\* failure (the client sets a timeout of 60 seconds), and the method that
\* waits for it goes on.
TransportAnswers == pc \in {"waiting", "refused"} /\ LiveNext

LiveSpec == LiveInit /\ [][LiveNext]_vars /\ WF_vars(TransportAnswers)

(***************************************************************************)
(* Two calls at once.  Two goroutines call a create or update method on the *)
(* same client, each with its own Destination; resty marshals each body     *)
(* through Destination.MarshalJSON, whose statements the scheduler          *)
(* interleaves.  Here dest, arg, op, pc and request hold one value per      *)
(* goroutine: the caller's Destination, the copy d that MarshalJSON works   *)
(* on, the method, the statement reached, the body sent.                    *)
(***************************************************************************)
Procs == {1, 2}

\* The map objects: two made by the callers, and the one each MarshalJSON
\* makes for itself when its d.Properties is nil.
CallerRefs == {"m1", "m2"}
LocalRef(p) == IF p = 1 THEN "new1" ELSE "new2"

BodyMethods ==
    {"CreateSubaccountDestination", "UpdateSubaccountDestination",
     "CreateInstanceDestination", "UpdateInstanceDestination"}

\* The two Destinations: sharing one map, holding one each, or holding none.
ConcurrentDestinations ==
    {[q \in Procs |-> Destination(IF q = 1 THEN "d1" ELSE n2, IF q = 1 THEN HTTPDestination ELSE t2,
                                  r[q])] :
        n2 \in {"d1", "d2"}, t2 \in {HTTPDestination, RFCDestination},
        r \in {<<"m1", "m1">>, <<"m1", "m2">>, <<"m1", NilRef>>, <<NilRef, NilRef>>}}

ConcurrentInit ==
    /\ dest \in ConcurrentDestinations
    /\ arg = dest
    /\ \E m \in {EmptyMap, [URL |-> "x"]} :
          heap = [r \in CallerRefs \cup {LocalRef(q) : q \in Procs} |->
                    IF r = "m1" THEN m ELSE EmptyMap]
    /\ op \in [Procs -> BodyMethods]
    /\ pc = [q \in Procs |-> "nilCheck"]
    /\ request = [q \in Procs |-> NoBody]
    /\ recv = ZeroDestination
    /\ response = NoResponse
    /\ ret = NoRet
    /\ client = NoClient
    /\ transport = NoTransport
    /\ calls = 0

Untouched == <<dest, op, recv, response, ret, client, transport, calls>>

\* if d.Properties == nil { d.Properties = make(map[string]string) }
MarshalNilCheck(p) ==
    /\ pc[p] = "nilCheck"
    /\ arg' = [arg EXCEPT ![p].Properties = IF @ = NilRef THEN LocalRef(p) ELSE @]
    /\ pc' = [pc EXCEPT ![p] = "setName"]
    /\ UNCHANGED <<heap, request>>
    /\ UNCHANGED Untouched

\* d.Properties["Name"] = d.Name
MarshalSetName(p) ==
    /\ pc[p] = "setName"
    /\ heap' = [heap EXCEPT ![arg[p].Properties] = MapSet(@, "Name", arg[p].Name)]
    /\ pc' = [pc EXCEPT ![p] = "setType"]
    /\ UNCHANGED <<arg, request>>
    /\ UNCHANGED Untouched

\* d.Properties["Type"] = string(d.Type)
MarshalSetType(p) ==
    /\ pc[p] = "setType"
    /\ heap' = [heap EXCEPT ![arg[p].Properties] = MapSet(@, "Type", arg[p].Type)]
    /\ pc' = [pc EXCEPT ![p] = "marshal"]
    /\ UNCHANGED <<arg, request>>
    /\ UNCHANGED Untouched

\* return json.Marshal(d.Properties): the body of the request that is sent.
MarshalEncode(p) ==
    /\ pc[p] = "marshal"
    /\ request' = [request EXCEPT ![p] = jsonMarshalMap(heap[arg[p].Properties])]
    /\ pc' = [pc EXCEPT ![p] = "sent"]
    /\ UNCHANGED <<arg, heap>>
    /\ UNCHANGED Untouched

\* The goroutine is at a statement that writes or reads its map.
UsesMap(p) == pc[p] \in {"setName", "setType", "marshal"}

\* Two goroutines use one map at once without synchronisation, one of them
\* writing: what happens then is not defined; besides the interleavings
\* above, the runtime may stop the program (fatal error: concurrent map
\* writes, or concurrent map read and map write).
ConcurrentMapAccess(p) ==
    /\ pc[p] \in {"setName", "setType"}
    /\ \E q \in Procs \ {p} : UsesMap(q) /\ arg[q].Properties = arg[p].Properties
    /\ pc' = [q \in Procs |-> "fatal"]
    /\ UNCHANGED <<arg, heap, request>>
    /\ UNCHANGED Untouched

ConcurrentNext ==
    \E p \in Procs :
        \/ MarshalNilCheck(p)
        \/ MarshalSetName(p)
        \/ MarshalSetType(p)
        \/ MarshalEncode(p)
        \/ ConcurrentMapAccess(p)

ConcurrentSpec == ConcurrentInit /\ [][ConcurrentNext]_vars

(***************************************************************************)
(* The claims about the codec.                                              *)
(***************************************************************************)
\* The properties hold neither reserved key.
Clean(d) == DOMAIN d.Properties.kv \cap ReservedKeys = {}

\* A flat string payload: an object whose members are all strings.
FlatStrings(b) == b.t = "object" /\ \A k \in DOMAIN b.fields : b.fields[k].t = "string"

\* The pairs of a flat string payload other than "Name" and "Type".
CustomPairs(b) == [k \in (DOMAIN b.fields) \ ReservedKeys |-> b.fields[k].s]

\* C1 as claimed: for every Destination d whose properties hold neither "Name"
\* nor "Type" (absent properties and any type value included), decoding
\* encode(d) into a fresh Destination yields a Destination equal to d in name,
\* type and properties.
C1_RoundTripWhenClean_Claimed ==
    (op = "RoundTrip" /\ Clean(arg.d)) => (~ret.err /\ recv = arg.d)

\* C1 as amended: for every Destination d whose type is one of the four
\* enumeration values or empty and whose properties hold neither "Name" nor
\* "Type", decoding encode(d) into a fresh Destination yields d's name, d's
\* type and a properties map with exactly d's entries, which is an empty map
\* (not an absent one) when d's properties are absent.
C1_RoundTripWhenClean ==
    (op = "RoundTrip" /\ Clean(arg.d) /\ arg.d.Type \in DestinationTypes \cup {""})
        => /\ ~ret.err
           /\ recv.Name = arg.d.Name
           /\ recv.Type = arg.d.Type
           /\ recv.Properties = MadeProps(arg.d.Properties.kv)

C1_Witness ==
    /\ op = "RoundTrip"
    /\ arg.d.Type = MailDestination
    /\ arg.d.Name = "d1"
    /\ arg.d.Properties = MadeProps([URL |-> "x", name |-> "RFC"])
    /\ recv = arg.d

\* C2: whatever the properties of d hold under "Name" and "Type", the wire
\* object of encode(d) has Name equal to d.name and Type equal to the string
\* of d.type.
C2_ReservedKeyOverride ==
    op = "MarshalJSON"
        => /\ ~ret.err
           /\ ret.bytes.t = "object"
           /\ ReservedKeys \subseteq DOMAIN ret.bytes.fields
           /\ ret.bytes.fields["Name"] = JStr(arg.d.Name)
           /\ ret.bytes.fields["Type"] = JStr(arg.d.Type)

C2_Witness ==
    /\ op = "MarshalJSON"
    /\ arg.d.Name = "d1"
    /\ arg.d.Type = HTTPDestination
    /\ arg.d.Properties = MadeProps([Name |-> "x", Type |-> "RFC"])
    /\ ret.bytes = JObj([Name |-> JStr("d1"), Type |-> JStr("HTTP")])

\* C3 as claimed: after encode(d) returns, the caller's Destination is as it
\* was before the call: its properties hold exactly the entries they held,
\* with no "Name" or "Type" entry added or overwritten.
C3_EncodeLeavesCallerUnchanged ==
    op = "MarshalJSON" => ValueOf(dest, heap) = arg.d

\* C6: decoding a flat string payload whose "Type" is no exact enumeration
\* name succeeds and yields the empty type, with name and properties decoded
\* as for a recognised type.
C6_UnknownTypeTolerance ==
    (/\ op = "UnmarshalJSON"
     /\ FlatStrings(arg.b)
     /\ "Type" \in DOMAIN arg.b.fields
     /\ arg.b.fields["Type"].s \notin {"HTTP", "RFC", "MAIL", "LDAP"})
        => /\ ~ret.err
           /\ recv.Type = ""
           /\ "Name" \in DOMAIN arg.b.fields => recv.Name = arg.b.fields["Name"].s
           /\ recv.Properties = MadeProps(CustomPairs(arg.b))

C6_Witness ==
    /\ op = "UnmarshalJSON"
    /\ arg.b = JObj([Name |-> JStr("d1"), Type |-> JStr("UNKNOWN")])
    /\ arg.d.Type = LDAPDestination
    /\ ~ret.err
    /\ recv = DestVal("d1", "", MadeProps(EmptyMap))

\* C7: for every Destination whose properties are empty or absent, encode
\* completes without error or crash and yields a wire object with exactly the
\* two keys "Name" and "Type", holding the name and the type string.
C7_EmptyPropertiesEncode ==
    (op = "MarshalJSON" /\ arg.d.Properties.kv = EmptyMap)
        => /\ ~ret.panic
           /\ ~ret.err
           /\ ret.bytes = JObj([Name |-> JStr(arg.d.Name), Type |-> JStr(arg.d.Type)])

C7_Witness ==
    /\ op = "MarshalJSON"
    /\ arg.d = DestVal("d1", HTTPDestination, NilProps)
    /\ ret.bytes = JObj([Name |-> JStr("d1"), Type |-> JStr("HTTP")])

\* The payloads the amended C8 names: a top-level array, string, number or
\* boolean, and an object with a member that is an object, an array, a number
\* or a boolean.
Rejected(b) ==
    \/ b.t \in {"array", "string", "number", "bool"}
    \/ /\ b.t = "object"
       /\ \E k \in DOMAIN b.fields : b.fields[k].t \in {"object", "array", "number", "bool"}

\* C8 as claimed: decode returns an error for every payload that is not a
\* JSON object whose values are all strings: a top-level array, string,
\* number, boolean or null, and an object with a member that is a nested
\* object, an array, a number, a boolean or null.
C8_MalformedPayload_Claimed ==
    (op = "UnmarshalJSON" /\ ~FlatStrings(arg.b)) => ret.err

\* C8 as amended: decode returns an error for every payload that is a
\* top-level array, string, number or boolean, and for an object in which
\* some value is a nested object, an array, a number or a boolean; a
\* top-level null, and an object whose other values are strings with some
\* value null, decode without error.
C8_MalformedPayload ==
    op = "UnmarshalJSON" => (ret.err <=> Rejected(arg.b))

C8_Witness ==
    /\ op = "UnmarshalJSON"
    /\ arg.b = JObj([Name |-> JStr("d1"), URL |-> JNum(1)])
    /\ ret.err
    /\ recv = arg.d

\* C9: a successful decode of a flat string payload w sets name to w["Name"],
\* type from w["Type"], and makes properties exactly the pairs of w whose key
\* is neither "Name" nor "Type"; the decoded properties never hold "Name" or
\* "Type", and a key that differs in letter case only is an ordinary property.
C9_DecodePartition ==
    (op = "UnmarshalJSON" /\ FlatStrings(arg.b))
        => /\ ~ret.err
           /\ "Name" \in DOMAIN arg.b.fields => recv.Name = arg.b.fields["Name"].s
           /\ "Type" \in DOMAIN arg.b.fields =>
                 recv.Type = IF arg.b.fields["Type"].s \in DestinationTypes
                             THEN arg.b.fields["Type"].s ELSE ""
           /\ ~recv.Properties.isNil
           /\ DOMAIN recv.Properties.kv = (DOMAIN arg.b.fields) \ {"Name", "Type"}
           /\ \A k \in DOMAIN recv.Properties.kv : recv.Properties.kv[k] = arg.b.fields[k].s
           /\ "name" \in DOMAIN arg.b.fields => "name" \in DOMAIN recv.Properties.kv

C9_Witness ==
    /\ op = "UnmarshalJSON"
    /\ arg.b = JObj([Name |-> JStr("d1"), name |-> JStr("x")])
    /\ recv.Name = "d1"
    /\ recv.Properties = MadeProps([name |-> "x"])

(***************************************************************************)
(* The claims about the gateway.                                            *)
(***************************************************************************)
CreateOps ==
    {"CreateSubaccountDestination", "CreateInstanceDestination",
     "CreateSubaccountCertificate", "CreateInstanceCertificate"}
ListDestinationOps == {"GetSubaccountDestinations", "GetInstanceDestinations"}
ListCertificateOps == {"GetSubaccountCertificates", "GetInstanceCertificates"}
GetDestinationOps == {"GetSubaccountDestination", "GetInstanceDestination"}
GetCertificateOps == {"GetSubaccountCertificate", "GetInstanceCertificate"}
AffectedOps ==
    {"UpdateSubaccountDestination", "UpdateInstanceDestination",
     "DeleteSubaccountDestination", "DeleteInstanceDestination",
     "DeleteSubaccountCertificate", "DeleteInstanceCertificate"}
GatewayOps ==
    {"Find"} \cup CreateOps \cup ListDestinationOps \cup ListCertificateOps
        \cup GetDestinationOps \cup GetCertificateOps \cup AffectedOps

\* The status each operation expects, as the contract states it.
Expected(o) == IF o \in CreateOps THEN 201 ELSE 200

\* A gateway operation has returned to its caller.
Returned == pc = "idle" /\ op \in GatewayOps

\* The transport completed the request of the operation that returned.
Completed == Returned /\ response.kind = "response"

\* A member that a string (or int) field accepts: missing, null, or of the type.
FieldAccepts(b, key, type) ==
    key \in DOMAIN b.fields => b.fields[key].t \in {type, "null"}

\* A JSON value the Destination codec decodes: null, or an object whose
\* members are strings or null.
DecodesAsDestination(b) ==
    \/ b.t = "null"
    \/ b.t = "object" /\ \A k \in DOMAIN b.fields : b.fields[k].t \in {"string", "null"}

DecodesAsCertificate(b) ==
    \/ b.t = "null"
    \/ /\ b.t = "object"
       /\ \A k \in {"Name", "Type", "Content"} : FieldAccepts(b, k, "string")

DecodesAsAuthToken(b) ==
    \/ b.t = "null"
    \/ b.t = "object" /\ \A k \in {"type", "value"} : FieldAccepts(b, k, "string")

DecodesAsOwner(b) ==
    \/ b.t = "null"
    \/ /\ b.t = "object"
       /\ \A k \in {"SubaccountId", "InstanceId"} : FieldAccepts(b, k, "string")

DecodesAsList(b, Elem(_)) ==
    \/ b.t = "null"
    \/ b.t = "array" /\ \A i \in DOMAIN b.items : Elem(b.items[i])

\* The body is one the operation's result type takes.
DecodesAsResult(o, b) ==
    CASE o \in GetDestinationOps -> DecodesAsDestination(b)
      [] o \in ListDestinationOps -> DecodesAsList(b, DecodesAsDestination)
      [] o \in GetCertificateOps -> DecodesAsCertificate(b)
      [] o \in ListCertificateOps -> DecodesAsList(b, DecodesAsCertificate)
      [] o \in AffectedOps -> b.t = "null" \/ (b.t = "object" /\ FieldAccepts(b, "count", "number"))
      [] o = "Find" ->
            \/ b.t = "null"
            \/ /\ b.t = "object"
               /\ "owner" \in DOMAIN b.fields => DecodesAsOwner(b.fields["owner"])
               /\ "destinationConfiguration" \in DOMAIN b.fields =>
                     DecodesAsDestination(b.fields["destinationConfiguration"])
               /\ "certificates" \in DOMAIN b.fields =>
                     DecodesAsList(b.fields["certificates"], DecodesAsCertificate)
               /\ "authTokens" \in DOMAIN b.fields =>
                     DecodesAsList(b.fields["authTokens"], DecodesAsAuthToken)
      [] OTHER -> TRUE

\* The response is one whose body is decoded: served as JSON, not a 204.
Decoded(r) == r.json /\ r.status # 204

\* Decoding the body of the response does not fail: it is not decoded at all,
\* or it is the result the operation takes (a status from 200 to 299), or an
\* error object (a status of 400 or more).
BodyDecodes(o, r) ==
    \/ ~Decoded(r)
    \/ r.status \in 200..299 /\ (o \in CreateOps \/ DecodesAsResult(o, r.body))
    \/ r.status \in 300..399
    \/ /\ r.status >= 400
       /\ r.body.t = "null" \/ (r.body.t = "object" /\ FieldAccepts(r.body, "ErrorMessage", "string"))

\* The "ErrorMessage" field of a response body (empty when it has none).
BodyErrorMessage(b) ==
    IF b.t = "object" /\ "ErrorMessage" \in DOMAIN b.fields /\ b.fields["ErrorMessage"].t = "string"
    THEN b.fields["ErrorMessage"].s ELSE ""

C5_SuccessStatus_Claimed ==
    Returned => (ret.error = NoError <=> (Completed /\ response.status = Expected(op)))

\* C5 as amended: an operation returns a nil error if and only if the
\* transport completed the request, the status is exactly 200 (201 for a
\* create operation), and decoding the response body into the result did not
\* fail; every other status, other 2xx statuses included, yields an error.
C5_SuccessStatus ==
    Returned => (ret.error = NoError <=>
                    (Completed /\ response.status = Expected(op) /\ BodyDecodes(op, response)))

C5_Witness ==
    /\ Returned
    /\ op = "CreateInstanceCertificate"
    /\ response.kind = "response"
    /\ response.status = 200
    /\ ret.error.kind = "ErrorMessage"

\* A payload with no custom keys: null, or an object with "Name"/"Type" at most.
NoCustomKeys(b) == b.t = "null" \/ (b.t = "object" /\ DOMAIN b.fields \subseteq ReservedKeys)

\* The codec decoded b into the Destination d: its properties are a map, and
\* an empty one when b has no custom keys.
Initialised(d, b) ==
    /\ ~d.Properties.isNil
    /\ NoCustomKeys(b) => d.Properties = MadeProps(EmptyMap)

\* C10 as claimed: after every successful decode, also of a payload with no
\* custom keys, the Destination's properties are an empty mapping and never
\* absent; this also holds for every element of a list result and for the
\* destination nested in a find result.
C10_PropertiesInitialised_Claimed ==
    (Returned /\ ret.error = NoError)
        => /\ (op \in GetDestinationOps /\ Decoded(response))
                 => Initialised(ret.result, response.body)
           /\ op \in ListDestinationOps
                 => \A i \in DOMAIN ret.result.items :
                       Initialised(ret.result.items[i], response.body.items[i])
           /\ op = "Find" => ~ret.result.Destination.Properties.isNil

\* C10 as amended: the same, and for the destination nested in a find result
\* whenever the response is served as JSON and its object has a
\* "destinationConfiguration" member; a find response without one leaves the
\* nested Destination at its zero value, whose properties are absent.
C10_PropertiesInitialised ==
    (Returned /\ ret.error = NoError)
        => /\ (op \in GetDestinationOps /\ Decoded(response))
                 => Initialised(ret.result, response.body)
           /\ op \in ListDestinationOps
                 => \A i \in DOMAIN ret.result.items :
                       Initialised(ret.result.items[i], response.body.items[i])
           /\ (/\ op = "Find"
               /\ Decoded(response)
               /\ response.body.t = "object"
               /\ "destinationConfiguration" \in DOMAIN response.body.fields)
                 => Initialised(ret.result.Destination,
                                response.body.fields["destinationConfiguration"])

C10_Witness ==
    /\ Returned
    /\ op = "Find"
    /\ ret.error = NoError
    /\ response.body = JObj([destinationConfiguration |-> P2])
    /\ ret.result.Destination = DestVal("d1", "", MadeProps(EmptyMap))

\* The transport failed to complete the request of the operation that returned.
TransportFailed == Returned /\ response.kind = "error"

\* C11: for every gateway operation, when the transport fails to complete the
\* request, the operation returns exactly the error value the transport
\* produced: no ErrorMessage, no wrapped or replaced error, and no success.
C11_TransportErrorVerbatim ==
    TransportFailed
        => /\ ret.error.kind = "transport"
           /\ ret.error.err = response.err
           /\ ret.error # NoError

C11_Witness ==
    /\ TransportFailed
    /\ op = "CreateInstanceDestination"
    /\ pc = "idle"
    /\ response.err = "refused"
    /\ ret.error = [kind |-> "transport", err |-> "refused"]

Wrote(p, r) == pc[p] \in {"setType", "marshal", "sent"} /\ arg[p].Properties = r

\* Each call that has sent its body sent the Name and the Type of its own
\* Destination argument.
OwnNameAndType ==
    \A p \in Procs :
        pc[p] = "sent"
            => /\ request[p].fields["Name"].s = dest[p].Name
               /\ request[p].fields["Type"].s = dest[p].Type

\* C13: when two create or update calls run concurrently on one client, also
\* when their Destination arguments share the same properties mapping, under
\* every interleaving each call sends a body whose Name and Type are those of
\* its own Destination argument, no mapping is written by both calls, and the
\* program goes on.
C13_ConcurrentCallsIndependent ==
    /\ OwnNameAndType
    /\ \A p \in Procs : pc[p] # "fatal"
    /\ \A r \in DOMAIN heap : ~(Wrote(1, r) /\ Wrote(2, r))

\* The string a member of an object holds ("" when it is missing or null).
StringMember(b, key) ==
    IF b.t = "object" /\ key \in DOMAIN b.fields /\ b.fields[key].t = "string"
    THEN b.fields[key].s ELSE ""

\* The owner, certificates and auth tokens of a find response, field for field.
OwnerOf(b) ==
    [SubaccountID |-> StringMember(Member(b, "owner"), "SubaccountId"),
     InstanceID |-> StringMember(Member(b, "owner"), "InstanceId")]

CertificatesOf(b) ==
    IF Member(b, "certificates").t # "array" THEN NilList
    ELSE LET c == b.fields["certificates"].items
         IN  MadeList([i \in DOMAIN c |->
                         [Name |-> StringMember(c[i], "Name"),
                          Type |-> StringMember(c[i], "Type"),
                          Content |-> StringMember(c[i], "Content")]])

AuthTokensOf(b) ==
    IF Member(b, "authTokens").t # "array" THEN NilList
    ELSE LET a == b.fields["authTokens"].items
         IN  MadeList([i \in DOMAIN a |->
                         [Type |-> StringMember(a[i], "type"),
                          Value |-> StringMember(a[i], "value")]])

\* Find received status 200, and the body holds a nested flat destination
\* object with a Name and a Type of the enumeration.
FoundNested ==
    /\ Completed
    /\ op = "Find"
    /\ response.status = 200
    /\ response.body.t = "object"
    /\ "destinationConfiguration" \in DOMAIN response.body.fields
    /\ LET n == response.body.fields["destinationConfiguration"]
       IN  /\ FlatStrings(n)
           /\ ReservedKeys \subseteq DOMAIN n.fields
           /\ n.fields["Type"].s \in DestinationTypes

\* The find result that the body spells out.
NestedResult ==
    LET n == response.body.fields["destinationConfiguration"]
    IN  [Owner |-> OwnerOf(response.body),
         Destination |-> DestVal(n.fields["Name"].s, n.fields["Type"].s,
                                 MadeProps(CustomPairs(n))),
         Certificates |-> CertificatesOf(response.body),
         AuthTokens |-> AuthTokensOf(response.body)]

Called == op \in GatewayOps

\* C15: the request issued by Find(name, userToken) carries the header
\* X-user-token with value userToken if and only if userToken is not the empty
\* string; with an empty userToken it carries no such header, and no other
\* operation ever sends that header.
C15_FindForwardsUserToken ==
    Called
        => IF op = "Find"
           THEN /\ request.userToken.set <=> arg.userToken # ""
                /\ request.userToken.set => request.userToken.value = arg.userToken
                /\ arg.userToken = "" => request.userToken = NoHeader
           ELSE request.userToken = NoHeader

C15_Witness ==
    /\ op = "Find"
    /\ pc = "waiting"
    /\ arg = [name |-> "d1", userToken |-> "tok"]
    /\ request.userToken = [set |-> TRUE, value |-> "tok"]

\* C16: each of GetSubaccountDestinations, GetInstanceDestinations,
\* GetSubaccountCertificates and GetInstanceCertificates, when the remote
\* service answers 200 with an empty array, returns an empty list that is not
\* absent (nil), together with a nil error.
C16_EmptyListNotNil ==
    (/\ Completed
     /\ op \in ListDestinationOps \cup ListCertificateOps
     /\ response.status = 200
     /\ response.body = JArr(<<>>))
        => ret.error = NoError /\ ret.result = MadeList(<<>>)

C16_Witness ==
    /\ Completed
    /\ op = "GetInstanceCertificates"
    /\ response = [kind |-> "response", status |-> 200, json |-> TRUE, body |-> JArr(<<>>)]
    /\ ret = [result |-> [isNil |-> FALSE, items |-> <<>>], error |-> NoError]

\* The request carries the argument of the call: the name as the last piece
\* of its path, the Destination's name and type or the Certificate's fields
\* in its body.
CarriesArgument ==
    /\ "name" \in DOMAIN arg => request.url[Len(request.url)] = arg.name
    /\ op \in BodyMethods
          => /\ request.body.t = "object"
             /\ request.body.fields["Name"] = JStr(arg.d.Name)
             /\ request.body.fields["Type"] = JStr(arg.d.Type)
    /\ "cert" \in DOMAIN arg => request.body = jsonMarshalCertificate(arg.cert)

\* C17: for every argument value, also an empty name, a Destination with an
\* empty name, a type outside the enumeration, absent properties, or a
\* Certificate with empty fields, the operation builds its request with the
\* argument in it and hands it to the transport; no operation crashes, and
\* none returns an error before the transport has answered or failed.
C17_NoLocalValidation ==
    Called
        => /\ pc # "panic"
           /\ request # NoRequest
           /\ CarriesArgument
           /\ transport.requests + transport.unsent = calls
           /\ (pc = "idle" /\ ret.error # NoError) => response # NoResponse

C17_Witness ==
    /\ op = "CreateSubaccountDestination"
    /\ pc = "waiting"
    /\ arg.d = DestVal("", "", NilProps)
    /\ request.body = JObj([Name |-> JStr(""), Type |-> JStr("")])

\* C18 as claimed: every non-nil error returned by a gateway operation is
\* either the error the transport produced for a request it could not
\* complete, or an ErrorMessage with the HTTP status of a completed response
\* whose status is not the expected one; a completed response with the
\* expected status never produces an error.
C18_TwoErrorKinds_Claimed ==
    (Returned /\ ret.error # NoError)
        => \/ /\ ret.error.kind = "transport"
              /\ response.kind = "error"
              /\ ret.error.err = response.err
           \/ /\ ret.error.kind = "ErrorMessage"
              /\ Completed
              /\ response.status # Expected(op)
              /\ ret.error.statusCode = response.status

\* C18 as amended: there is a third kind, the error of decoding the body of
\* a completed response that is served as JSON and does not decode; a
\* completed response with the expected status produces no other error.
C18_TwoErrorKinds ==
    (Returned /\ ret.error # NoError)
        => \/ /\ ret.error.kind = "transport"
              /\ response.kind = "error"
              /\ ret.error.err = response.err
           \/ /\ ret.error.kind = "ErrorMessage"
              /\ Completed
              /\ response.status # Expected(op)
              /\ ret.error.statusCode = response.status
           \/ /\ ret.error.kind = "decode"
              /\ Completed
              /\ Decoded(response)
              /\ ~BodyDecodes(op, response)

C18_Witness ==
    /\ Returned
    /\ op = "GetSubaccountDestination"
    /\ response = [kind |-> "response", status |-> 200, json |-> TRUE, body |-> PBad]
    /\ ret.error = [kind |-> "decode"]

Scopes == {"Subaccount", "Instance"}
Entities == {"Destination", "Certificate"}
Verbs == {"list", "get", "create", "replace", "delete"}

\* The name a manager interface gives the operation on an entity of a scope.
OperationName(scope, entity, what) ==
    CASE what = "list" -> "Get" \o scope \o entity \o "s"
      [] what = "get" -> "Get" \o scope \o entity
      [] what = "create" -> "Create" \o scope \o entity
      [] what = "replace" -> "Update" \o scope \o entity
      [] what = "delete" -> "Delete" \o scope \o entity

\* The client has the operation: a caller can call it.
Provides(o) == ENABLED (Next /\ op' = o)

\* A client that NewClient has just built.
Built == op = "NewClient" /\ pc = "idle"

\* C19 as claimed: for each of the two scopes and each of the two entities
\* the gateway provides all five operations list, get-by-name, create,
\* replace and delete, in addition to find-by-name.
C19_OperationSurface_Claimed ==
    Built
        => /\ Provides("Find")
           /\ \A scope \in Scopes, entity \in Entities, what \in Verbs :
                 Provides(OperationName(scope, entity, what))

\* C19 as amended: for each of the two scopes the gateway provides list,
\* get-by-name, create, replace and delete for destinations, and list,
\* get-by-name, create and delete for certificates, which have no replace;
\* in addition it provides find-by-name.
C19_OperationSurface ==
    Built
        => /\ Provides("Find")
           /\ \A scope \in Scopes, what \in Verbs :
                 Provides(OperationName(scope, "Destination", what))
           /\ \A scope \in Scopes, what \in Verbs \ {"replace"} :
                 Provides(OperationName(scope, "Certificate", what))
           /\ \A scope \in Scopes :
                 ~Provides(OperationName(scope, "Certificate", "replace"))

C19_Witness ==
    /\ Built
    /\ client.restyClient.HostURL = "https://svc/destination-configuration/v1"
    /\ Provides("UpdateInstanceDestination")
    /\ Provides("DeleteSubaccountCertificate")
    /\ ~Provides("UpdateSubaccountCertificate")

\* C20: for every DestinationClientConfiguration, also one with empty fields,
\* NewClient returns a non-nil client and a nil error without issuing any
\* HTTP request; the client's base URL is ServiceURL followed by
\* "/destination-configuration/v1" and its token endpoint is TokenURL followed
\* by "/oauth/token"; a bad URL surfaces only as the error of a later
\* operation.
C20_NewClientAlwaysUsable ==
    /\ Built
          => /\ ret.error = NoError
             /\ ret.result = "client"
             /\ client # NoClient
             /\ transport.tokenRequests = 0 /\ transport.requests = 0
             /\ client.restyClient.HostURL =
                   arg.clientConf.ServiceURL \o "/destination-configuration/v1"
             /\ client.conf.TokenURL = arg.clientConf.TokenURL \o "/oauth/token"
    /\ (Returned /\ client.conf.TokenURL = "/oauth/token")
          => ret.error.kind = "transport"

C20_Witness ==
    /\ Built
    /\ arg.clientConf = [ClientID |-> "", ClientSecret |-> "", TokenURL |-> "", ServiceURL |-> ""]
    /\ ret = [result |-> "client", error |-> NoError]
    /\ client.restyClient.HostURL = "/destination-configuration/v1"
    /\ client.conf.TokenURL = "/oauth/token"

\* A gateway operation is in its round trip: its request is with the transport.
InRoundTrip == op \in GatewayOps /\ pc \in {"waiting", "refused"}

PathSegments ==
    {"destinations", "subaccountDestinations", "subaccountCertificates",
     "subaccountCertificate", "instanceDestinations", "instanceCertificates",
     "instanceCertificate"}

\* A caller that called operation o now would have it request the path /seg.
RequestsCollection(o, seg) == ENABLED (Next /\ op' = o /\ request'.url = <<seg>>)

\* The step is a call of operation o.
Calls(o) == pc = "idle" /\ pc' \in {"waiting", "refused"} /\ op' = o

\* C22: for each scope and each entity, the get-by-name and delete-by-name
\* operations request the path of that same scope and entity's list and create
\* operations followed by "/" and the given name.
C22_ItemPathExtendsCollectionPath ==
    [][\A scope \in Scopes, entity \in Entities, seg \in PathSegments :
          (/\ Calls(OperationName(scope, entity, "get"))
                \/ Calls(OperationName(scope, entity, "delete"))
           /\ RequestsCollection(OperationName(scope, entity, "list"), seg)
           /\ RequestsCollection(OperationName(scope, entity, "create"), seg))
              => request'.url = <<seg, arg'.name>>]_vars

\* The operations by what they do.
UpdateOps == {"UpdateSubaccountDestination", "UpdateInstanceDestination"}
DeleteOps == AffectedOps \ UpdateOps
ReadOps ==
    {"Find"} \cup ListDestinationOps \cup ListCertificateOps
        \cup GetDestinationOps \cup GetCertificateOps

\* The body of the request is the Destination the caller passed: its name, its
\* type and each of its custom properties, and nothing else.
CarriesDestination ==
    /\ request.body.t = "object"
    /\ DOMAIN request.body.fields = DOMAIN arg.d.Properties.kv \cup ReservedKeys
    /\ request.body.fields["Name"] = JStr(arg.d.Name)
    /\ request.body.fields["Type"] = JStr(arg.d.Type)
    /\ \A k \in (DOMAIN arg.d.Properties.kv) \ ReservedKeys :
          request.body.fields[k] = JStr(arg.d.Properties.kv[k])

\* C23: every find, list and get-by-name operation issues a GET, every create
\* operation a POST that carries the entity as body, every update operation a
\* PUT that carries the Destination as body to the collection path (a path of
\* one segment, so the name travels only in the body), and every delete
\* operation a DELETE with no body; no operation issues any other verb.
C23_VerbMapping ==
    Called
        => /\ op \in ReadOps => request.method = "GET"
           /\ op \in CreateOps
                 => /\ request.method = "POST"
                    /\ op \in BodyMethods => CarriesDestination
                    /\ op \notin BodyMethods
                          => request.body = jsonMarshalCertificate(arg.cert)
           /\ op \in UpdateOps
                 => /\ request.method = "PUT"
                    /\ CarriesDestination
                    /\ Len(request.url) = 1
           /\ op \in DeleteOps => request.method = "DELETE" /\ request.body = NoBody
           /\ request.method \in {"GET", "POST", "PUT", "DELETE"}

C23_Witness ==
    /\ op = "UpdateSubaccountDestination"
    /\ pc = "waiting"
    /\ request.method = "PUT"
    /\ request.url = <<"subaccountDestinations">>
    /\ arg.d = DestVal("d1", HTTPDestination, MadeProps([URL |-> "x"]))
    /\ request.body = JObj([Name |-> JStr("d1"), Type |-> JStr("HTTP"), URL |-> JStr("x")])

\* C24: for every flat string payload w and every two receivers r1 and r2,
\* with any prior name, type and properties, decoding w into r1 and into r2
\* yields equal Destinations: nothing of a receiver's prior name, type or
\* properties survives a successful decode, also when w lacks the "Name" key
\* or the "Type" key.
C24_DecodeIsPure ==
    (op = "UnmarshalJSON" /\ FlatStrings(arg.b))
        => /\ ~ret.err
           /\ \A r2 \in Receivers : UnmarshalJSON(r2, arg.b).d = recv

\* C25: for every Destination d, the key set of encode(d) is the key set of
\* d.properties together with "Name" and "Type", the result is a single-level
\* object (every member a string), and every pair of d.properties whose key is
\* neither "Name" nor "Type" appears in it with its value unchanged.
C25_EncodePreservesCustom ==
    op = "MarshalJSON"
        => /\ ~ret.err
           /\ FlatStrings(ret.bytes)
           /\ DOMAIN ret.bytes.fields = DOMAIN arg.d.Properties.kv \cup ReservedKeys
           /\ \A k \in (DOMAIN arg.d.Properties.kv) \ ReservedKeys :
                 ret.bytes.fields[k] = JStr(arg.d.Properties.kv[k])

C25_Witness ==
    /\ op = "MarshalJSON"
    /\ arg.d = DestVal("d1", RFCDestination, MadeProps([URL |-> "x", name |-> "RFC"]))
    /\ ret.bytes = JObj([Name |-> JStr("d1"), Type |-> JStr("RFC"),
                         URL |-> JStr("x"), name |-> JStr("RFC")])

\* The strings a Destination holds outside the reserved property keys.
Carried(d) ==
    {d.Name, d.Type} \cup {d.Properties.kv[k] : k \in (DOMAIN d.Properties.kv) \ ReservedKeys}

C27_WireRoundTrip ==
    (/\ op = "WireRoundTrip"
     /\ FlatStrings(arg.b)
     /\ ReservedKeys \subseteq DOMAIN arg.b.fields
     /\ arg.b.fields["Type"].s \in DestinationTypes)
        => ~ret.err /\ ret.bytes = arg.b

C27_Witness ==
    /\ op = "WireRoundTrip"
    /\ arg.b = JObj([Name |-> JStr("d1"), Type |-> JStr("RFC"), URL |-> JStr("x")])
    /\ recv = DestVal("d1", RFCDestination, MadeProps([URL |-> "x"]))
    /\ ret.bytes = arg.b

\* C28: after any sequence of encode calls on a Destination and changes of its
\* name and type fields, also for a second Destination on the same properties
\* mapping, an encode yields a wire object whose Name and Type are the name and
\* type the Destination has at that call, never values an earlier encode left
\* behind; and encoding the unchanged Destination again yields an equal wire
\* object.
C28_EncodeEmitsCurrent ==
    /\ [](op = "MarshalJSON"
            => /\ ret.bytes.fields["Name"] = JStr(dest.Name)
               /\ ret.bytes.fields["Type"] = JStr(dest.Type))
    /\ [][(op = "MarshalJSON" /\ op' \in {"MarshalJSON", "RoundTrip"})
             => ret'.bytes = ret.bytes]_vars

C28_Witness ==
    /\ op = "MarshalJSON"
    /\ arg.d = DestVal("", HTTPDestination, MadeProps([Name |-> "d1", Type |-> "LDAP"]))
    /\ ret.bytes = JObj([Name |-> JStr(""), Type |-> JStr("HTTP")])

\* C29: when decode returns an error, the receiver Destination keeps exactly
\* the name, type and properties it had before the call.
C29_FailedDecodeKeepsReceiver ==
    (op = "UnmarshalJSON" /\ ret.err) => recv = arg.d

C29_Witness ==
    /\ op = "UnmarshalJSON"
    /\ ret.err
    /\ arg.b = JObj([Name |-> JStr("d1"), URL |-> JNum(1)])
    /\ arg.d = DestVal("old", LDAPDestination, MadeProps([URL |-> "old"]))
    /\ recv = arg.d

\* The first path segments that belong to an entity of a scope: the paths that
\* begin with /subaccountDestinations, with /subaccountCertificate, with
\* /instanceDestinations, with /instanceCertificate.
SegmentsOf(scope, entity) ==
    LET prefix == IF scope = "Subaccount" THEN "subaccount" ELSE "instance"
    IN  IF entity = "Destination"
        THEN {prefix \o "Destinations"}
        ELSE {prefix \o "Certificate", prefix \o "Certificates"}

\* C30: every subaccount-scope operation requests only a path that begins with
\* /subaccountDestinations or /subaccountCertificate, every instance-scope
\* operation only one that begins with /instanceDestinations or
\* /instanceCertificate, a destination operation never a certificate path nor
\* a certificate operation a destination path, and Find only /destinations/{name}.
C30_ScopeSeparation ==
    Called
        => /\ op = "Find" => request.url = <<"destinations", arg.name>>
           /\ \A scope \in Scopes, entity \in Entities, what \in Verbs :
                 op = OperationName(scope, entity, what)
                    => /\ request.url[1] \in SegmentsOf(scope, entity)
                       /\ Len(request.url) = IF what \in {"get", "delete"} THEN 2 ELSE 1
           /\ op # "Find"
                 => \E scope \in Scopes, entity \in Entities, what \in Verbs :
                       op = OperationName(scope, entity, what)

C30_Witness ==
    /\ op = "GetInstanceCertificate"
    /\ pc = "waiting"
    /\ request.url = <<"instanceCertificate", "d1">>

====
